---- MODULE Spec2Model ----
(***************************************************************************)
(* Model of the two scripts of the repository:                             *)
(*   files/audiobook-processor.py  (chunk planning, tempo chain, executor) *)
(*   files/gather_source_code.py   (classifier, tree walk, aggregator)     *)
(* Numbers that the Python code handles as floats (speed_factor and the    *)
(* tempo stages) are modelled as exact rationals <<num, den>>, den > 0.    *)
(***************************************************************************)
EXTENDS Integers, Sequences, FiniteSets, TLC

VARIABLES
    \* ---- audiobook-processor.py: arguments of process_audiobook
    chunk_duration, speed_factor, start_chunk, max_chunks,
    \* ---- audiobook-processor.py: locals of process_audiobook
    pc, total_duration, total_chunks, i,
    \* ---- audiobook-processor.py: what the run did
    invocations,    \* the ffmpeg commands run, in order
    results,        \* exit status of each command (TRUE = success)
    log,            \* the error messages printed, in order
    \* ---- gather_source_code.py
    bpc, directory, status, files, k, outfile, flushed, blog, runs, first_out

varsA == <<chunk_duration, speed_factor, start_chunk, max_chunks,
           pc, total_duration, total_chunks, i, invocations, results, log>>
varsB == <<bpc, directory, status, files, k, outfile, flushed, blog, runs, first_out>>
vars == <<varsA, varsB>>

(***************************************************************************)
(* Bounds of the model                                                     *)
(***************************************************************************)
MaxChunkMinutes == 1    \* --chunk-duration ranges over 1..MaxChunkMinutes and the default
MaxWhole == 2           \* probed durations lie around 0..MaxWhole whole chunks
DurSlack == 1           \* ... within DurSlack seconds of a chunk boundary, or half a chunk past it
MaxStartChunk == 2      \* --start-chunk ranges over 1..MaxStartChunk
MaxMaxChunks == 2       \* --max-chunks is absent or in 1..MaxMaxChunks
MaxSpeedNum == 4        \* --speed ranges over n/d, n in 0..MaxSpeedNum,
MaxSpeedDen == 3        \*                          d in 1..MaxSpeedDen, and -1
MaxRuns == 2            \* consecutive runs of the concatenator

(***************************************************************************)
(* Program constants                                                       *)
(***************************************************************************)
SecondsPerMinute == 60          \* chunk_seconds = chunk_duration * 60
DefaultChunkDuration == 10      \* chunk_duration: int = 10

(***************************************************************************)
(* Exact rational arithmetic for the float expressions of the code         *)
(***************************************************************************)
RECURSIVE GCD(_, _)
GCD(a, b) == IF b = 0 THEN a ELSE GCD(b, a % b)

Abs(x) == IF x < 0 THEN -x ELSE x

Rat(n, d) ==
    LET g == GCD(Abs(n), Abs(d))
        s == IF d < 0 THEN -1 ELSE 1
    IN  <<(s * n) \div g, (s * d) \div g>>

RLe(a, b) == a[1] * b[2] <= b[1] * a[2]
RLt(a, b) == a[1] * b[2] < b[1] * a[2]
RMul(a, b) == Rat(a[1] * b[1], a[2] * b[2])
RDiv(a, b) == Rat(a[1] * b[2], a[2] * b[1])
RFloor(a) == a[1] \div a[2]
\* x % 2 of Python for a float x: the result lies in [0, 2)
RMod2(a) == Rat(a[1] % (2 * a[2]), a[2])

Zero == Rat(0, 1)
One == Rat(1, 1)
Two == Rat(2, 1)
Half == Rat(1, 2)

RECURSIVE Product(_)
Product(s) == IF s = <<>> THEN One ELSE RMul(Head(s), Product(Tail(s)))

Repeat(x, n) == [j \in 1..n |-> x]

Min(a, b) == IF a <= b THEN a ELSE b

(***************************************************************************)
(* audiobook-processor.py                                                  *)
(***************************************************************************)
None == <<>>
Some(m) == <<m>>

\* get_duration: float(stdout) when ffprobe printed something, else 0
\* (after printing stderr when it is not empty).
get_duration(probe) ==
    IF probe.stdout # None THEN probe.stdout[1] ELSE 0

get_duration_log(probe) ==
    IF probe.stdout = None /\ probe.stderr
    THEN <<[msg |-> "probe_stderr", chunk |-> 0]>>
    ELSE <<>>

\* math.ceil(total_duration / chunk_seconds)
\* (variant: rounds down)
CeilDivFloor(t, cs) == t \div cs
CeilDiv(t, cs) == (t + cs - 1) \div cs

\* if max_chunks is not None: total_chunks = min(total_chunks, start_chunk + max_chunks - 1)
\* (variant: the window is one chunk too long)
ClampChunksOffByOne(tc, sc, mc) ==
    IF mc # None THEN Min(tc, sc + mc[1]) ELSE tc
ClampChunks(tc, sc, mc) ==
    IF mc # None THEN Min(tc, sc + mc[1] - 1) ELSE tc

\* (speed_factor <= 0.0) or ((1 / speed_factor % 2) <= 0.0)
\* (the right operand is evaluated only when the left one is false)
SpeedInvalid(s) ==
    IF RLe(s, Zero) THEN TRUE ELSE RLe(RMod2(RDiv(One, s)), Zero)

\* The stages of tempo_chain; no filter at all when speed_factor == 1.0
\* (variant: without the trailing stage)
TempoChainNoTrailing(s) ==
    IF s = One THEN <<>>
    ELSE IF RLt(Two, s) THEN Repeat(Two, RFloor(RDiv(s, Two)))
    ELSE IF RLt(s, Half) THEN Repeat(Half, RFloor(RDiv(Two, s)))
    ELSE <<s>>
TempoChain(s) ==
    IF s = One THEN <<>>
    ELSE IF RLt(Two, s)
         THEN Repeat(Two, RFloor(RDiv(s, Two))) \o <<RMod2(s)>>
    ELSE IF RLt(s, Half)
         THEN Repeat(Half, RFloor(RDiv(Two, s)))
                \o <<RDiv(One, RMod2(RDiv(One, s)))>>
    ELSE <<s>>

\* The ffmpeg command of loop index n (0-based): -ss, -t, -filter:a, output name
Command(n, cs, total, s) ==
    [index |-> n + 1,
     start_time |-> n * cs,
     duration |-> Min(cs, total - n * cs),
     chain |-> TempoChain(s)]

ChunkDurations == (1..MaxChunkMinutes) \cup {DefaultChunkDuration}

Speeds == {Rat(n, d) : n \in 0..MaxSpeedNum, d \in 1..MaxSpeedDen} \cup {Rat(-1, 1)}

MaxChunkOptions == {None} \cup {Some(m) : m \in 1..MaxMaxChunks}

\* What ffprobe can answer for a chunk length of cs seconds
Durations(cs) ==
    {d \in {w * cs + e : w \in 0..MaxWhole,
                         e \in (-DurSlack..DurSlack) \cup {cs \div 2}} : d >= 0}

ProbeResults(cs) ==
    {[stdout |-> Some(d), stderr |-> FALSE] : d \in Durations(cs)}
        \cup {[stdout |-> None, stderr |-> b] : b \in BOOLEAN}

\* the concatenator is not run
IdleB ==
    /\ bpc = "idle"
    /\ directory = "."
    /\ status = <<>>
    /\ files = <<>>
    /\ k = 0
    /\ outfile = <<>>
    /\ flushed = 0
    /\ blog = <<>>
    /\ runs = 0
    /\ first_out = <<>>

InitA ==
    /\ IdleB
    /\ chunk_duration \in ChunkDurations
    /\ speed_factor \in Speeds
    /\ start_chunk \in 1..MaxStartChunk
    /\ max_chunks \in MaxChunkOptions
    /\ pc = "start"
    /\ total_duration = 0
    /\ total_chunks = 0
    /\ i = 0
    /\ invocations = <<>>
    /\ results = <<>>
    /\ log = <<>>

\* process_audiobook, lines 53-68: probe, precondition, chunk plan
Start ==
    /\ pc = "start"
    /\ \E probe \in ProbeResults(chunk_duration * SecondsPerMinute) :
         LET td == get_duration(probe)
             cs == chunk_duration * SecondsPerMinute
         IN  /\ total_duration' = td
             /\ IF td = 0
                THEN /\ log' = get_duration_log(probe)
                                 \o <<[msg |-> "duration_error", chunk |-> 0]>>
                     /\ pc' = "done"
                     /\ UNCHANGED <<total_chunks, i>>
                ELSE /\ log' = get_duration_log(probe)
                     /\ total_chunks' = ClampChunks(CeilDiv(td, cs), start_chunk, max_chunks)
                     /\ i' = start_chunk - 1
                     /\ pc' = "loop"
    /\ UNCHANGED <<chunk_duration, speed_factor, start_chunk, max_chunks,
                   invocations, results>>
    /\ UNCHANGED varsB

\* for i in range(start_chunk - 1, total_chunks): the range is exhausted
LoopExit ==
    /\ pc = "loop"
    /\ i >= total_chunks
    /\ pc' = "done"
    /\ UNCHANGED <<chunk_duration, speed_factor, start_chunk, max_chunks,
                   total_duration, total_chunks, i, invocations, results, log>>
    /\ UNCHANGED varsB

\* one iteration that stops at the speed check of lines 90-92
SpeedAbort ==
    /\ pc = "loop"
    /\ i < total_chunks
    /\ SpeedInvalid(speed_factor)
    /\ log' = Append(log, [msg |-> "speed_error", chunk |-> 0])
    /\ pc' = "done"
    /\ UNCHANGED <<chunk_duration, speed_factor, start_chunk, max_chunks,
                   total_duration, total_chunks, i, invocations, results>>
    /\ UNCHANGED varsB

\* (variant: a failing command ends the loop)
ProcessChunkFatal ==
    /\ pc = "loop"
    /\ i < total_chunks
    /\ ~SpeedInvalid(speed_factor)
    /\ \E ok \in BOOLEAN :
         /\ invocations' = Append(invocations,
                Command(i, chunk_duration * SecondsPerMinute, total_duration, speed_factor))
         /\ results' = Append(results, ok)
         /\ log' = IF ok THEN log
                   ELSE Append(log, [msg |-> "chunk_error", chunk |-> i + 1])
         /\ pc' = IF ok THEN pc ELSE "done"
    /\ i' = i + 1
    /\ UNCHANGED <<chunk_duration, speed_factor, start_chunk, max_chunks,
                   total_duration, total_chunks>>
    /\ UNCHANGED varsB

\* one whole iteration, lines 72-124: build the command, run it, log a failure
ProcessChunk ==
    /\ pc = "loop"
    /\ i < total_chunks
    /\ ~SpeedInvalid(speed_factor)
    /\ \E ok \in BOOLEAN :
         /\ invocations' = Append(invocations,
                Command(i, chunk_duration * SecondsPerMinute, total_duration, speed_factor))
         /\ results' = Append(results, ok)
         /\ log' = IF ok THEN log
                   ELSE Append(log, [msg |-> "chunk_error", chunk |-> i + 1])
    /\ i' = i + 1
    /\ UNCHANGED <<chunk_duration, speed_factor, start_chunk, max_chunks,
                   pc, total_duration, total_chunks>>
    /\ UNCHANGED varsB

NextA == Start \/ LoopExit \/ SpeedAbort \/ ProcessChunk

SpecA == InitA /\ [][NextA]_vars

(***************************************************************************)
(* Properties of the audiobook chunker                                     *)
(***************************************************************************)
chunk_seconds == chunk_duration * SecondsPerMinute

\* ceil(t / cs) as the least n with t <= n * cs
LeastCover(t, cs) == CHOOSE n \in 0..t : t <= n * cs /\ (n = 0 \/ (n - 1) * cs < t)

\* Upper index U of the requested window
UpperIndex ==
    LET n == LeastCover(total_duration, chunk_seconds)
    IN  IF max_chunks = None THEN n
        ELSE IF n <= start_chunk + max_chunks[1] - 1 THEN n
        ELSE start_chunk + max_chunks[1] - 1

Window(j) == <<invocations[j].start_time, invocations[j].duration>>

LogHas(m) == \E j \in 1..Len(log) : log[j].msg = m

\* The run went through its whole loop: the probe gave a duration and the speed passed
Completed == pc = "done" /\ total_duration > 0 /\ ~SpeedInvalid(speed_factor)

\* C1: with start_chunk = 1 and no max_chunks, a run that passes the preconditions
\* issues ceil(total_duration / chunk_seconds) commands whose windows start at 0,
\* follow one another without gap or overlap and end at total_duration; 1500 s in
\* 10-minute chunks gives (0,600), (600,600), (1200,300).
C1_CoverExactly ==
    (Completed /\ start_chunk = 1 /\ max_chunks = None) =>
        LET n == Len(invocations)
        IN  /\ n = LeastCover(total_duration, chunk_seconds)
            /\ n >= 1
            /\ invocations[1].start_time = 0
            /\ \A j \in 1..n : invocations[j].duration > 0
            /\ \A j \in 1..(n - 1) :
                 invocations[j + 1].start_time
                     = invocations[j].start_time + invocations[j].duration
            /\ invocations[n].start_time + invocations[n].duration = total_duration
            /\ (total_duration = 1500 /\ chunk_duration = 10) =>
                 [j \in 1..n |-> Window(j)] = <<<<0, 600>>, <<600, 600>>, <<1200, 300>>>>

C1_Witness ==
    /\ Completed /\ start_chunk = 1 /\ max_chunks = None
    /\ total_duration = 1500 /\ chunk_duration = 10
    /\ Len(invocations) = 3

\* C2: the commands are one per index in [start_chunk, U], U = ceil(total/chunk_seconds)
\* clamped to start_chunk + max_chunks - 1; start_time = (index-1)*chunk_seconds,
\* duration = min(chunk_seconds, total_duration - start_time), so no window passes the
\* end and there are at most max_chunks of them; an empty window gives no command and
\* no error.
C2_PlanWindow ==
    /\ Completed =>
         LET n == Len(invocations)
         IN  /\ n = (IF UpperIndex >= start_chunk THEN UpperIndex - start_chunk + 1 ELSE 0)
             /\ \A j \in 1..n :
                  LET c == invocations[j]
                  IN  /\ c.index = start_chunk + j - 1
                      /\ c.start_time = (c.index - 1) * chunk_seconds
                      /\ c.duration = (IF chunk_seconds <= total_duration - c.start_time
                                       THEN chunk_seconds
                                       ELSE total_duration - c.start_time)
                      /\ c.start_time + c.duration <= total_duration
             /\ max_chunks # None => n <= max_chunks[1]
    /\ (pc = "done" /\ total_duration > 0 /\ start_chunk > UpperIndex) =>
         (invocations = <<>> /\ log = <<>>)

C2_Witness ==
    /\ Completed /\ start_chunk = 2 /\ max_chunks = Some(1)
    /\ Len(invocations) = 1
    /\ invocations[1].duration < chunk_seconds
    /\ UpperIndex = 2

\* C3: every tempo chain attached to a command consists of stages in [0.5, 2.0] whose
\* product is the requested speed_factor.
C3_ChainBoundedProduct ==
    \A j \in 1..Len(invocations) :
        LET c == invocations[j].chain
        IN  /\ \A m \in 1..Len(c) : RLe(Half, c[m]) /\ RLe(c[m], Two)
            /\ Product(c) = speed_factor

\* C4: for speed_factor = 4.0 the chain is exactly [2.0, 2.0].
C4_ChainForFour ==
    speed_factor = Rat(4, 1) =>
        \A j \in 1..Len(invocations) : invocations[j].chain = <<Two, Two>>

\* C5: for 0.5 <= speed_factor <= 2.0 other than 1.0 the speed check does not abort
\* the run and every planned chunk's command carries the single stage speed_factor.
C5_SingleStage ==
    (RLe(Half, speed_factor) /\ RLe(speed_factor, Two) /\ speed_factor # One) =>
        /\ ~LogHas("speed_error")
        /\ \A j \in 1..Len(invocations) : invocations[j].chain = <<speed_factor>>
        /\ (pc = "done" /\ total_duration > 0 /\ UpperIndex >= start_chunk) =>
              Len(invocations) = UpperIndex - start_chunk + 1

\* C6: when the probe returns zero or the speed is invalid, the precondition error is
\* logged and the run ends without any command, whatever the chunk plan.
C6_PreconditionAbort ==
    (pc = "done" /\ (total_duration = 0 \/ SpeedInvalid(speed_factor))) =>
        /\ (LogHas("duration_error") \/ LogHas("speed_error"))
        /\ invocations = <<>>

RECURSIVE FailureLog(_, _)
FailureLog(res, first) ==
    IF res = <<>> THEN <<>>
    ELSE (IF Head(res) THEN <<>> ELSE <<[msg |-> "chunk_error", chunk |-> first]>>)
            \o FailureLog(Tail(res), first + 1)

\* C7 (safety part): whatever commands fail, the executor runs one command per planned chunk in
\* ascending index order, logs one error per failed chunk, never runs a chunk twice,
\* and the run ends.
C7_Safety ==
    (pc \in {"loop", "done"} /\ total_duration > 0 /\ ~SpeedInvalid(speed_factor)) =>
        /\ Len(results) = Len(invocations)
        /\ \A j \in 1..Len(invocations) : invocations[j].index = start_chunk + j - 1
        /\ log = FailureLog(results, start_chunk)
        /\ i = start_chunk - 1 + Len(invocations)
        /\ pc = "done" =>
             Len(invocations) = (IF UpperIndex >= start_chunk
                                 THEN UpperIndex - start_chunk + 1 ELSE 0)

\* C7: the safety part above holds throughout, and the run reaches its end.
C7_FailureNonFatal == [](C7_Safety) /\ <>(pc = "done")

C7_Witness ==
    /\ Completed
    /\ Len(invocations) = 3
    /\ results = <<TRUE, FALSE, TRUE>>

RSub(a, b) == Rat(a[1] * b[2] - b[1] * a[2], a[2] * b[2])
ModTwo(x) == RSub(x, RMul(Two, Rat(RFloor(RDiv(x, Two)), 1)))

\* C9: outside [0.5, 2.0] a valid speed compiles to floor(speed/2) stages of 2.0 and
\* a trailing stage speed mod 2 (3.0 gives [2.0, 1.0]), or, below 0.5, to
\* floor(2/speed) stages of 0.5 and a trailing stage 1 / ((1/speed) mod 2).
C9_ChainFormula ==
    \A j \in 1..Len(invocations) :
        LET c == invocations[j].chain
            s == speed_factor
        IN  /\ RLt(Two, s) =>
                 /\ Len(c) = RFloor(RDiv(s, Two)) + 1
                 /\ \A m \in 1..(Len(c) - 1) : c[m] = Two
                 /\ c[Len(c)] = ModTwo(s)
            /\ RLt(s, Half) =>
                 /\ Len(c) = RFloor(RDiv(Two, s)) + 1
                 /\ \A m \in 1..(Len(c) - 1) : c[m] = Half
                 /\ RMul(c[Len(c)], ModTwo(RDiv(One, s))) = One
            /\ s = Rat(3, 1) => c = <<Two, One>>

C9_Witness ==
    /\ speed_factor = Rat(1, 3)
    /\ Len(invocations) >= 1
    /\ invocations[1].chain = <<Half, Half, Half, Half, Half, Half, One>>

FairSpecA == SpecA /\ WF_vars(NextA)

(***************************************************************************)
(* gather_source_code.py                                                   *)
(***************************************************************************)
\* main: output_file = 'combined_source_code.txt', written in the current directory
OutputName == "combined_source_code.txt"

\* The files that may exist below the current directory, by their path from it,
\* listed in the lexicographic order of the paths os.walk builds for them
\* ("./a.py" < "./b.png" < "./combined_source_code.txt" < "./sub/c.md" < "./sub/d.csv",
\* and "sub/c.md" < "sub/d.csv").
FileOrder == <<"a.py", "b.png", "combined_source_code.txt", "sub/c.md", "sub/d.csv">>

AllFiles == {FileOrder[n] : n \in 1..Len(FileOrder)}
SubFiles == {"sub/c.md", "sub/d.csv"}
Directories == {".", "sub"}

\* pathlib.Path(filepath).suffix.lower()
Suffix(f) ==
    CASE f = "a.py" -> ".py"
      [] f = "b.png" -> ".png"
      [] f = "combined_source_code.txt" -> ".txt"
      [] f = "sub/c.md" -> ".md"
      [] f = "sub/d.csv" -> ".csv"

\* main: text_extensions
text_extensions ==
    {".h", ".cpp", ".cs", ".py", ".json", ".xml", ".txt", ".md",
     ".ini", ".config", ".yaml", ".yml", ".uplugin", ".build",
     ".html", ".css", ".js", ".java", ".swift", ".m", ".mm",
     ".sh", ".bat", ".cmd", ".ps1", ".gradle", ".properties"}

\* mimetypes.guess_type(filepath)[0], as <<major, minor>>, <<>> for no guess
guess_type(f) ==
    CASE Suffix(f) = ".png" -> <<"image", "png">>
      [] Suffix(f) = ".csv" -> <<"text", "csv">>
      [] Suffix(f) = ".txt" -> <<"text", "plain">>
      [] Suffix(f) = ".py" -> <<"text", "x-python">>
      [] OTHER -> <<>>

is_text_file(f, exts) ==
    IF Suffix(f) \in exts THEN TRUE
    ELSE guess_type(f) # <<>> /\ guess_type(f)[1] = "text"

Range(w) == {w[n] : n \in 1..Len(w)}

Perms(S) ==
    {w \in [1..Cardinality(S) -> S] : \A a, b \in 1..Cardinality(S) : a # b => w[a] # w[b]}

\* The files os.walk(directory) meets: those of the directory itself, then those of
\* its subdirectory, each directory's entries in the order the file system lists them
InTree(dir, f) == IF dir = "." THEN TRUE ELSE f \in SubFiles

WalkOrders(dir, st) ==
    LET top == {f \in AllFiles \ SubFiles : InTree(dir, f) /\ st[f] # "absent"}
        low == {f \in SubFiles : st[f] # "absent"}
    IN  {a \o c : a \in Perms(top), c \in Perms(low)}

\* sorted(text_files)
sorted(w) == SelectSeq(FileOrder, LAMBDA f : f \in Range(w))

\* collect_files: filter the walk by the classifier, then sort
collect_files(w, exts) == sorted(SelectSeq(w, LAMBDA f : is_text_file(f, exts)))

\* What is written to the output stream
Header(dir, f) == [kind |-> "header", dir |-> dir, file |-> f, upto |-> 0]
Opener == [kind |-> "opener", dir |-> "", file |-> "", upto |-> 0]
Closer == [kind |-> "closer", dir |-> "", file |-> "", upto |-> 0]
\* infile.read(): the whole content of f (upto = -1), or, for the file that is being
\* written, the part of it the writer has flushed so far (its first upto items)
Content(f, upto) == [kind |-> "content", dir |-> "", file |-> f, upto |-> upto]

Statuses == {"absent", "ok", "denied", "undecodable"}

\* the chunker is not run
IdleA ==
    /\ chunk_duration = DefaultChunkDuration
    /\ speed_factor = One
    /\ start_chunk = 1
    /\ max_chunks = None
    /\ pc = "idle"
    /\ total_duration = 0
    /\ total_chunks = 0
    /\ i = 0
    /\ invocations = <<>>
    /\ results = <<>>
    /\ log = <<>>

InitB ==
    /\ IdleA
    /\ bpc = "collect"
    /\ directory \in Directories
    /\ status \in {st \in [AllFiles -> Statuses] : st[OutputName] = "absent"}
    /\ files = <<>>
    /\ k = 0
    /\ outfile = <<>>
    /\ flushed = 0
    /\ blog = <<>>
    /\ runs = 0
    /\ first_out = <<>>

\* main, lines 66-72: files = collect_files(directory, text_extensions)
CollectFiles ==
    /\ bpc = "collect"
    /\ runs < MaxRuns
    /\ \E w \in WalkOrders(directory, status) : files' = collect_files(w, text_extensions)
    /\ bpc' = "open"
    /\ UNCHANGED <<directory, status, k, outfile, flushed, blog, runs, first_out>>
    /\ UNCHANGED varsA

\* create_combined_file, line 37: open(output_file, 'w') creates or truncates the file
OpenOutput ==
    /\ bpc = "open"
    /\ status' = [status EXCEPT ![OutputName] = "ok"]
    /\ outfile' = <<>>
    /\ flushed' = 0
    /\ k' = 1
    /\ bpc' = "write"
    /\ UNCHANGED <<directory, files, blog, runs, first_out>>
    /\ UNCHANGED varsA

\* the buffered writer hands what it holds to the file system
Flush ==
    /\ bpc = "write"
    /\ flushed < Len(outfile)
    /\ flushed' = Len(outfile)
    /\ UNCHANGED <<bpc, directory, status, files, k, outfile, blog, runs, first_out>>
    /\ UNCHANGED varsA

\* create_combined_file, lines 38-53: one iteration of the loop over files.
\* Reading the output file itself returns what has reached the file system by then:
\* at least what was flushed before, at most all that was written, the block's own
\* header and fence included.
WriteFile ==
    /\ bpc = "write"
    /\ k <= Len(files)
    /\ LET f == files[k]
       IN  CASE status[f] \in {"denied", "absent"} ->
                  \* open() raises: the except Exception branch
                  /\ blog' = Append(blog, [msg |-> "error", file |-> f])
                  /\ UNCHANGED <<outfile, flushed>>
             [] status[f] = "undecodable" ->
                  \* header and fence are written, then infile.read() raises
                  /\ outfile' = outfile \o <<Header(directory, f), Opener>>
                  /\ blog' = Append(blog, [msg |-> "warning", file |-> f])
                  /\ UNCHANGED flushed
             [] status[f] = "ok" /\ f # OutputName ->
                  /\ outfile' = outfile \o
                       <<Header(directory, f), Opener, Content(f, -1), Closer>>
                  /\ UNCHANGED <<blog, flushed>>
             [] status[f] = "ok" /\ f = OutputName ->
                  \E n \in flushed..(Len(outfile) + 2) :
                      /\ outfile' = outfile \o
                           <<Header(directory, f), Opener, Content(f, n), Closer>>
                      /\ flushed' = n
                      /\ UNCHANGED blog
    /\ k' = k + 1
    /\ UNCHANGED <<bpc, directory, status, files, runs, first_out>>
    /\ UNCHANGED varsA

\* the with block ends (the file is closed, everything is flushed), main returns;
\* the script can then be run again
CloseOutput ==
    /\ bpc = "write"
    /\ k > Len(files)
    /\ flushed' = Len(outfile)
    /\ runs' = runs + 1
    /\ first_out' = IF runs = 0 THEN outfile ELSE first_out
    /\ bpc' = "collect"
    /\ UNCHANGED <<directory, status, files, k, outfile, blog>>
    /\ UNCHANGED varsA

NextB == CollectFiles \/ OpenOutput \/ Flush \/ WriteFile \/ CloseOutput

SpecB == InitB /\ [][NextB]_vars

(***************************************************************************)
(* Properties of the source concatenator                                   *)
(***************************************************************************)
\* The files of the list handled so far that were read successfully, in list order
ReadSoFar == SelectSeq(SubSeq(files, 1, k - 1), LAMBDA f : status[f] = "ok")

\* C8: the output holds exactly one complete block (header with the path, fence
\* opener, content, fence closer) per successfully read file, in list order, and
\* nothing for a file that could not be opened or decoded.
C8_CompleteBlocksOnly ==
    bpc = "write" =>
        /\ Len(outfile) = 4 * Len(ReadSoFar)
        /\ \A n \in 1..Len(ReadSoFar) :
             /\ outfile[4 * n - 3] = Header(directory, ReadSoFar[n])
             /\ outfile[4 * n - 2] = Opener
             /\ outfile[4 * n - 1].kind = "content"
             /\ outfile[4 * n - 1].file = ReadSoFar[n]
             /\ outfile[4 * n] = Closer

\* C10: the aggregate file is never one of the files aggregated, and every run over
\* an unchanged tree writes what the first run wrote.
C10_Idempotent ==
    /\ OutputName \notin Range(files)
    /\ \A n \in 1..Len(outfile) : outfile[n].file # OutputName
    /\ (bpc = "collect" /\ runs >= 1) => outfile = first_out

====
